---- MODULE Spec2Model ----
(***************************************************************************)
(* Hdl21 Python bindings (src/src/lib.rs): the extension module `hdl21`    *)
(* whose initializer binds one callable, `health_py`, under the name       *)
(* "health".  The model covers the host loading the module, callers        *)
(* looking names up in it, and each call of `health_py` from entry to the  *)
(* value handed back to the host.  The steps of different callers          *)
(* interleave freely, which includes every schedule the host's interpreter *)
(* lock allows.                                                            *)
(***************************************************************************)
EXTENDS Integers, Sequences, FiniteSets, TLC

\* ------------------------------------------------------------------ bounds

NumCallers == 2     \* concurrent callers (host threads)
NumTokens  == 2     \* distinct execution contexts the host may pass as `_py`
MaxCalls   == 3     \* attempts made in one behaviour, over all callers

Callers  == 1..NumCallers
PyTokens == 1..NumTokens

\* The names a caller may ask the module for: the bound name and the Rust
\* identifier of the function, which is not a name of the module.
Names == {"health", "health_py"}

\* --------------------------------------------------------- values and types

\* PyResult<T>: the success variant and the error variant (lib.rs:8).
Ok(v)  == [tag |-> "Ok", val |-> v]
Err(e) == [tag |-> "Err", val |-> e]

\* The string literal of lib.rs:19, as its characters.
ALIVE == <<"a", "l", "i", "v", "e">>

\* str::to_string (lib.rs:19): a fresh String holding the characters of s.
to_string_truncating(s) == [i \in 1..(Len(s) - 1) |-> s[i]]
to_string(s) == [i \in 1..Len(s) |-> s[i]]

\* A module with nothing bound in it: what the host hands to the initializer.
EmptyModule == << >>

VARIABLES
    load,       \* the host's load of the module: "unloaded", "ok", "err"
    module,     \* the names bound in the loaded module, name -> callable
    pc,         \* per caller: "idle", "called" (inside health_py), "returning"
    asked,      \* per caller: the name it called the callable by
    py,         \* per caller: the context token the host passed to its call
    ret,        \* per caller: the PyResult its call of health_py produced
    log         \* what the host has observed, in order: one record per attempt

vars == <<load, module, pc, asked, py, ret, log>>

NoName   == ""
NoToken  == 0
NoResult == [tag |-> "None", val |-> << >>]

\* --------------------------------------------------------------- the code

\* fn health_py(_py: Python) -> PyResult<String>   (lib.rs:18-20)
health_py_lowercased(_py) == Ok(to_string(<<"A", "l", "i", "v", "e">>))
health_py_by_context(_py) == IF _py = 1 THEN Ok(to_string(ALIVE)) ELSE Ok(to_string(<<"d", "e", "a", "d">>))
health_py_failing(_py) == IF _py = 1 THEN Ok(to_string(ALIVE)) ELSE Err("RuntimeError")
health_py_once(_py) == IF \E i \in 1..Len(log) : log[i].kind = "return" THEN Ok(to_string(<< >>)) ELSE Ok(to_string(ALIVE))
health_py(_py) == Ok(to_string(ALIVE))

\* #[pyfn(m, "health")]   (lib.rs:17): bind the callable in module m.
pyfn_rust_name(m, f) == [n \in (DOMAIN m) \cup {"health_py"} |-> IF n = "health_py" THEN f ELSE m[n]]
pyfn(m, f) == [n \in (DOMAIN m) \cup {"health"} |-> IF n = "health" THEN f ELSE m[n]]

\* fn hdl21(_py: Python, m: &PyModule) -> PyResult<()>   (lib.rs:14-22):
\* the module after the initializer ran on m, and the initializer's result.
hdl21(m) == [module |-> pyfn(m, "health_py"), result |-> Ok(<< >>)]

\* The binding layer's conversion of a PyResult<String> for the host: the
\* success variant is the call's return value, the error variant is raised.
IntoHost(r) == IF r.tag = "Ok" THEN [kind |-> "return", value |-> r.val]
                               ELSE [kind |-> "raise", value |-> r.val]

\* ---------------------------------------------------------------- actions

\* The host loads the module: it runs the initializer on an empty module and
\* publishes the module when the initializer returned Ok.
Load ==
    /\ load = "unloaded"
    /\ LET r == hdl21(EmptyModule) IN
         IF r.result.tag = "Ok"
           THEN load' = "ok" /\ module' = r.module
           ELSE load' = "err" /\ module' = module
    /\ UNCHANGED <<pc, asked, py, ret, log>>

\* The host fails to load the module (the initializer never completes):
\* nothing is published.
LoadFail ==
    /\ load = "unloaded"
    /\ load' = "err"
    /\ UNCHANGED <<module, pc, asked, py, ret, log>>

\* Whether the host can reach a callable by name.
Reachable(name) == name \in DOMAIN module

\* Caller c asks the module for `name` and calls it with context token t.
Call(c, name, t) ==
    /\ pc[c] = "idle"
    /\ Len(log) + Cardinality({d \in Callers : pc[d] # "idle"}) < MaxCalls
    /\ Reachable(name)
    /\ module[name] = "health_py"
    /\ pc' = [pc EXCEPT ![c] = "called"]
    /\ asked' = [asked EXCEPT ![c] = name]
    /\ py' = [py EXCEPT ![c] = t]
    /\ UNCHANGED <<load, module, ret, log>>

\* Caller c asks for a name the host cannot reach: the host reports it and no
\* call happens.
Miss(c, name) ==
    /\ pc[c] = "idle"
    /\ Len(log) + Cardinality({d \in Callers : pc[d] # "idle"}) < MaxCalls
    /\ ~Reachable(name)
    /\ log' = Append(log, [caller |-> c, name |-> name, py |-> NoToken,
                           kind |-> "unreachable", value |-> << >>])
    /\ UNCHANGED <<load, module, pc, asked, py, ret>>

\* Variants of the body with an effect the code does not have: one keeps the
\* result in storage shared by all callers, one unbinds the callable it was
\* reached by, one takes the module back to not loaded, one waits until no
\* other caller is inside the body.
BodySharedBuffer(c) ==
    /\ pc[c] = "called"
    /\ ret' = [d \in Callers |-> IF d = c THEN health_py(py[c])
                                 ELSE IF pc[d] = "returning" THEN Ok(<< >>)
                                 ELSE ret[d]]
    /\ pc' = [pc EXCEPT ![c] = "returning"]
    /\ UNCHANGED <<load, module, asked, py, log>>

BodyUnbinding(c) ==
    /\ pc[c] = "called"
    /\ ret' = [ret EXCEPT ![c] = health_py(py[c])]
    /\ pc' = [pc EXCEPT ![c] = "returning"]
    /\ module' = EmptyModule
    /\ UNCHANGED <<load, asked, py, log>>

BodyUnloading(c) ==
    /\ pc[c] = "called"
    /\ ret' = [ret EXCEPT ![c] = health_py(py[c])]
    /\ pc' = [pc EXCEPT ![c] = "returning"]
    /\ load' = "unloaded"
    /\ UNCHANGED <<module, asked, py, log>>

BodyWaiting(c) ==
    /\ pc[c] = "called"
    /\ \A d \in Callers \ {c} : pc[d] # "called"
    /\ ret' = [ret EXCEPT ![c] = health_py(py[c])]
    /\ pc' = [pc EXCEPT ![c] = "returning"]
    /\ UNCHANGED <<load, module, asked, py, log>>

\* The body of health_py runs for caller c (lib.rs:19).
Body(c) ==
    /\ pc[c] = "called"
    /\ ret' = [ret EXCEPT ![c] = health_py(py[c])]
    /\ pc' = [pc EXCEPT ![c] = "returning"]
    /\ UNCHANGED <<load, module, asked, py, log>>

\* The call returns to the host, which observes its outcome.
Return(c) ==
    /\ pc[c] = "returning"
    /\ LET o == IntoHost(ret[c]) IN
         log' = Append(log, [caller |-> c, name |-> asked[c], py |-> py[c],
                             kind |-> o.kind, value |-> o.value])
    /\ pc' = [pc EXCEPT ![c] = "idle"]
    /\ asked' = [asked EXCEPT ![c] = NoName]
    /\ py' = [py EXCEPT ![c] = NoToken]
    /\ ret' = [ret EXCEPT ![c] = NoResult]
    /\ UNCHANGED <<load, module>>

Init ==
    /\ load = "unloaded"
    /\ module = EmptyModule
    /\ pc = [c \in Callers |-> "idle"]
    /\ asked = [c \in Callers |-> NoName]
    /\ py = [c \in Callers |-> NoToken]
    /\ ret = [c \in Callers |-> NoResult]
    /\ log = << >>

\* The state: the load's status, the module's bindings, and per caller its
\* position in a call, the name and token of the call and the call's result.
TypeOK ==
    /\ load \in {"unloaded", "ok", "err"}
    /\ DOMAIN module \subseteq Names
    /\ pc \in [Callers -> {"idle", "called", "returning"}]
    /\ asked \in [Callers -> Names \cup {NoName}]
    /\ py \in [Callers -> PyTokens \cup {NoToken}]
    /\ \A c \in Callers : ret[c].tag \in {"None", "Ok", "Err"}
    /\ Len(log) <= MaxCalls

Next ==
    \/ Load
    \/ LoadFail
    \/ \E c \in Callers, name \in Names, t \in PyTokens : Call(c, name, t)
    \/ \E c \in Callers, name \in Names : Miss(c, name)
    \/ \E c \in Callers : Body(c)
    \/ \E c \in Callers : Return(c)

Spec == Init /\ [][Next]_vars

\* A call that has started is run by its own thread: each caller's steps
\* inside the call are taken if they stay enabled.  Nothing is assumed about
\* callers starting calls, or about the load.
LiveSpec == Spec /\ \A c \in Callers : WF_vars(Body(c)) /\ WF_vars(Return(c))

\* ----------------------------------------------------------------- claims

\* The attempts of the log that were calls of the callable (the host reached
\* it), as opposed to names the host could not reach.
IsCall(e) == e.kind # "unreachable"
LogCalls == {i \in 1..Len(log) : IsCall(log[i])}

\* C1: every call of health returns exactly the string "alive": the five
\* characters a, l, i, v, e, in lower case, and nothing more or less.  This
\* holds of every result a caller holds and of every value the host observed.
C1_ReturnsAlive ==
    /\ \A c \in Callers : pc[c] = "returning" =>
          ret[c].val = <<"a", "l", "i", "v", "e">>
    /\ \A i \in LogCalls :
          /\ log[i].name = "health"
          /\ Len(log[i].value) = 5
          /\ log[i].value = <<"a", "l", "i", "v", "e">>

C1_Witness ==
    /\ load = "ok"
    /\ Cardinality(LogCalls) >= 2
    /\ \E c \in Callers : pc[c] = "returning"

\* C2: no call of health yields an error: every result is the success
\* variant and the host never observes a raised error, however many calls
\* came before.  The only failure is the load's, and after a failed load no
\* call has happened or is in progress.
C2_NeverErr ==
    /\ \A c \in Callers : pc[c] = "returning" => ret[c].tag = "Ok"
    /\ \A i \in 1..Len(log) : log[i].kind # "raise"
    /\ load = "err" => /\ LogCalls = {}
                       /\ \A c \in Callers : pc[c] = "idle"

C2_Witness ==
    /\ Cardinality({i \in 1..Len(log) : log[i].kind = "return"}) >= 2
    /\ \E c \in Callers : pc[c] = "returning" /\ py[c] # 1

\* C3: with callers inside health at the same time, in any interleaving, every
\* call returns "alive" and none raises, and a step taken while a caller holds
\* its result leaves that result as it was: no caller's call changes another
\* caller's result.
C3_Concurrent ==
    /\ [](\A c \in Callers : pc[c] = "returning" =>
            ret[c] = [tag |-> "Ok", val |-> <<"a", "l", "i", "v", "e">>])
    /\ [](\A i \in LogCalls : log[i].kind = "return"
                              /\ log[i].value = <<"a", "l", "i", "v", "e">>)
    /\ [][\A c \in Callers :
            (pc[c] = "returning" /\ pc'[c] = "returning") =>
                (ret'[c] = ret[c] /\ py'[c] = py[c] /\ asked'[c] = asked[c])]_vars

\* Two callers are inside health at once, one holding its result while the
\* other has yet to run the body, after a call has already returned.
C3_Witness ==
    /\ \E c, d \in Callers : c # d /\ pc[c] = "returning" /\ pc[d] = "called"
    /\ LogCalls # {}

\* C4: the name "health" reaches the operation if and only if the load has
\* succeeded; without a successful load no call is in progress and none has
\* been observed, and an attempt on "health" made then was reported
\* unreachable.
C4_ReachableIffLoaded ==
    /\ (Reachable("health") /\ module["health"] = "health_py") <=> (load = "ok")
    /\ load # "ok" => /\ \A c \in Callers : pc[c] = "idle"
                      /\ LogCalls = {}
    /\ \A c \in Callers : pc[c] # "idle" => asked[c] = "health"

\* The load succeeded after an attempt on "health" was turned away, and a call
\* by that name has since returned.
C4_Witness ==
    /\ load = "ok"
    /\ \E i, j \in 1..Len(log) :
          /\ i < j
          /\ log[i].name = "health" /\ log[i].kind = "unreachable"
          /\ log[j].name = "health" /\ log[j].kind = "return"

\* C5: a run of the body of health changes nothing but the calling caller's
\* own result: the load, the module's bindings, what the host has observed and
\* every other caller's state stay as they were; and the result it produces is
\* the same whatever calls came before.
C5_SideEffectFree ==
    [][\A c \in Callers :
         (pc[c] = "called" /\ pc'[c] = "returning") =>
            /\ load' = load
            /\ module' = module
            /\ Reachable("health")'
            /\ log' = log
            /\ asked' = asked /\ py' = py
            /\ \A d \in Callers \ {c} : pc'[d] = pc[d] /\ ret'[d] = ret[d]
            /\ ret'[c].tag = "Ok" /\ ret'[c].val = <<"a", "l", "i", "v", "e">>]_vars

\* The body has run for a caller after earlier calls had already returned.
C5_Witness ==
    /\ Cardinality({i \in 1..Len(log) : log[i].kind = "return"}) >= 2
    /\ \E c \in Callers : pc[c] = "returning" /\ ret[c].tag = "Ok"

\* C6: any two calls of health in an execution, consecutive or not, have the
\* same result.
C6_Idempotent ==
    \A i, j \in LogCalls :
        log[i].kind = log[j].kind /\ log[i].value = log[j].value

C6_Witness ==
    \E i \in 1..Len(log) :
        /\ i + 1 <= Len(log)
        /\ log[i].kind = "return" /\ log[i + 1].kind = "return"

\* C7: the result of health does not depend on the context token the host
\* passed or on which caller made the call: two calls that differ in either
\* have the same result.
C7_IgnoresContext ==
    /\ \A i, j \in LogCalls :
          (log[i].py # log[j].py \/ log[i].caller # log[j].caller) =>
              (log[i].kind = log[j].kind /\ log[i].value = log[j].value)
    /\ \A c, d \in Callers :
          (pc[c] = "returning" /\ pc[d] = "returning") => ret[c] = ret[d]

C7_Witness ==
    \E i, j \in LogCalls :
        /\ log[i].py # log[j].py
        /\ log[i].caller # log[j].caller
        /\ log[i].kind = "return" /\ log[j].kind = "return"

\* C8: the module has one operational state, load = "ok": it is entered only
\* by the load, from not loaded, and once entered no step (no call of health,
\* no attempt, no return) leaves it or changes the module's bindings.
C8_SingleState ==
    /\ [][load = "ok" => (load' = "ok" /\ module' = module)]_vars
    /\ [][(load # "ok" /\ load' = "ok") =>
            (load = "unloaded" /\ pc' = pc /\ log' = log
             /\ \A c \in Callers : pc[c] = "idle")]_vars
    /\ [][load = "err" => load' = "err"]_vars

\* The module is ready, calls have returned and another is in progress.
C8_Witness ==
    /\ load = "ok"
    /\ Cardinality({i \in 1..Len(log) : log[i].kind = "return"}) >= 2
    /\ \E c \in Callers : pc[c] = "returning"

\* C9: a call of health that has started returns: inside the call a caller's
\* next step is always enabled, whatever the other callers are doing, and the
\* call reaches its return.
C9_Returns ==
    /\ [](\A c \in Callers : /\ pc[c] = "called" => ENABLED Body(c)
                             /\ pc[c] = "returning" => ENABLED Return(c))
    /\ \A c \in Callers : (pc[c] = "called") ~> (pc[c] = "idle")

\* A caller's call has returned while another caller, which started its call
\* no later, has still not run the body.
C9_Witness ==
    \E c, d \in Callers :
        /\ c # d
        /\ pc[d] = "called"
        /\ \E i \in LogCalls : log[i].caller = c /\ log[i].kind = "return"

====
